---- MODULE Spec2Model ----
(***************************************************************************)
(* Model of the Oasys n8n nodes: the polling trigger (OasysTrigger.poll)   *)
(* with its persisted "last processed block" cursor, and the action node   *)
(* (Oasys.execute) with its per-item loop and continue-on-fail policy.     *)
(***************************************************************************)
EXTENDS Integers, Sequences, FiniteSets, TLC

\* ------------------------------------------------------------------------
\* Bounds
\* ------------------------------------------------------------------------
\* Highest block height an RPC endpoint reports.
MaxHeight == 8
\* Failed RPC calls / missing blocks injected into one run.
MaxFaults == 1
\* Contract events a single log query returns.
MaxEvents == 1
\* Polls started in a run whose polls may overlap.
MaxPolls == 3
\* Input items handed to one execution of the action node.
MaxItems == 3

\* ------------------------------------------------------------------------
\* Program constants
\* ------------------------------------------------------------------------
\* "currentBlock - 5" in the newBlock loops.
LookBack == 5

\* workflowStaticData[stateKey] when nothing was stored yet (undefined).
NoCursor == -1
NoChain == "none"

Procs == {1, 2}
SerialProcs == {1}

Max(a, b) == IF a >= b THEN a ELSE b

\* ------------------------------------------------------------------------
\* Trigger configuration: node parameters and credentials read by poll()
\* ------------------------------------------------------------------------
VERSES == {"homeVerse", "mchVerse"}

BaseCfg ==
  [category |-> "hub", event |-> "newBlock", layer |-> "hub",
   verse |-> "homeVerse", credLayer |-> "hubMainnet", credVerse |-> "homeVerse",
   privateKey |-> "none", watchAddress |-> TRUE, contractSet |-> TRUE,
   abiOk |-> TRUE]

Mk(cat, ev) == [BaseCfg EXCEPT !.category = cat, !.event = ev]

HubNewBlock == Mk("hub", "newBlock")
VerseNewBlock(v) == [Mk("verse", "newBlock") EXCEPT !.verse = v]

NewBlockConfigs ==
  { HubNewBlock, VerseNewBlock("homeVerse"), VerseNewBlock("mchVerse") }

AllConfigs ==
  NewBlockConfigs \cup
  { [HubNewBlock EXCEPT !.credLayer = "hubTestnet"],
    [HubNewBlock EXCEPT !.privateKey = "bad"],
    Mk("hub", "epochChanged"),
    Mk("hub", "validatorChanged"),
    Mk("wallet", "balanceChanged"),
    [Mk("wallet", "balanceChanged") EXCEPT !.layer = "verse"],
    [Mk("wallet", "balanceChanged") EXCEPT !.watchAddress = FALSE],
    Mk("staking", "rewardsAvailable"),
    VerseNewBlock("unknownVerse"),
    Mk("verse", "statusChanged"),
    Mk("verse", "bridgeEvent"),
    Mk("bridge", "depositCompleted"),
    Mk("nft", "transferred"),
    [Mk("nft", "transferred") EXCEPT !.layer = "verse"],
    Mk("contract", "contractEvent"),
    [Mk("contract", "contractEvent") EXCEPT !.layer = "verse"],
    [Mk("contract", "contractEvent") EXCEPT !.abiOk = FALSE],
    [Mk("contract", "contractEvent") EXCEPT !.contractSet = FALSE] }

\* const stateKey = `oasys_trigger_${category}_${event}`
StateKey(cfg) == <<"oasys_trigger", cfg.category, cfg.event>>

Keys == { StateKey(c) : c \in AllConfigs }

\* Variant: the stored value is ignored.
ReadCursor_Forget(v) == 0

\* (workflowStaticData[stateKey] as number) || 0
ReadCursor(v) == IF v = NoCursor \/ v = 0 THEN 0 ELSE v

\* Which branch of poll() a configuration takes.
HubBranch(cfg) ==
  \/ cfg.category = "hub"
  \/ (cfg.category = "wallet" /\ cfg.layer = "hub")
  \/ cfg.category = "staking"

VerseBranch(cfg) ==
  /\ ~HubBranch(cfg)
  /\ \/ cfg.category = "verse"
     \/ (cfg.category = "wallet" /\ cfg.layer = "verse")

\* layer: networkLayer === 'hubTestnet' ? 'hubTestnet' : 'hubMainnet'
HubChain(cfg) == IF cfg.credLayer = "hubTestnet" THEN "hubTestnet" ELSE "hubMainnet"

\* The verse key handed to createVerseClient.
VerseKeyOf(cfg) ==
  IF cfg.category = "nft"
    THEN (IF cfg.credVerse = "" THEN "homeVerse" ELSE cfg.credVerse)
    ELSE cfg.verse

\* The chain whose height the poll reads (NoChain: no height is read).
ChainOf(cfg) ==
  IF HubBranch(cfg) THEN HubChain(cfg)
  ELSE IF VerseBranch(cfg) THEN cfg.verse
  ELSE IF cfg.category = "nft"
    THEN (IF cfg.layer = "hub" THEN HubChain(cfg) ELSE VerseKeyOf(cfg))
  ELSE IF cfg.category = "contract" /\ cfg.layer = "hub" THEN HubChain(cfg)
  ELSE NoChain

\* new Wallet(privateKey) in the client constructors rejects a malformed key.
WalletThrows(cfg) == cfg.privateKey = "bad"

\* createVerseClient: getVerseConfig(verse) undefined -> "Verse not found".
VerseNotFound(v) == v \notin VERSES

\* Does building the client at the start of the polling body throw?
ClientThrows(cfg) ==
  IF HubBranch(cfg) THEN WalletThrows(cfg)
  ELSE IF VerseBranch(cfg) THEN VerseNotFound(cfg.verse) \/ WalletThrows(cfg)
  ELSE IF cfg.category = "nft"
    THEN (IF cfg.layer = "hub" THEN WalletThrows(cfg)
          ELSE VerseNotFound(VerseKeyOf(cfg)) \/ WalletThrows(cfg))
  ELSE IF cfg.category = "contract" /\ cfg.layer = "hub" THEN WalletThrows(cfg)
  ELSE FALSE

\* Variant: a window that reaches back fewer blocks.
WindowStart_Short(last, cur) == Max(last + 1, cur - 3)

\* Math.max(lastProcessedBlock + 1, currentBlock - 5)
WindowStart(last, cur) == Max(last + 1, cur - LookBack)

\* Values a query (epoch number, balance, status) may return.
Values == {0, 1}

NoValue == -1

\* No log query issued: an empty range.
NoRange == <<0, -1>>

\* getContractEvents(..., lastProcessedBlock + 1, currentBlock)
QueryRange(last, cur) == <<last + 1, cur>>

Rec(ev, chain, n) == [event |-> ev, chain |-> chain, blockNumber |-> n]

\* ------------------------------------------------------------------------
\* State
\* ------------------------------------------------------------------------
VARIABLES
  nodeCfg,             \* the trigger node's current parameters/credentials
  staticData,          \* workflow static data of the node: key -> cursor
  pc,                  \* per poll invocation: where it is suspended
  cfg,                 \* per poll: parameters read at its start
  lastProcessedBlock,  \* per poll: cursor read at its start
  currentBlock,        \* per poll: height observed
  blockNum,            \* per poll: loop variable of the newBlock loop
  results,             \* per poll: records collected
  outcome,             \* per poll: "none" | "null" | "results" | "thrown"
  caught,              \* per poll: the outer catch block ran
  failed,              \* per poll: a call inside the polling body failed
  faults,              \* failures/missing blocks injected so far
  sawNull,             \* per poll: some fetched block was missing
  overlap,             \* per poll: it ran while another poll was running
  skipped,             \* blocks a completed poll left outside its window
  owner,               \* key -> chain whose height was last stored in it
  readFrom,            \* per poll: owner of the cursor value it read
  polls,               \* polls started (counted where polls may overlap)
  observed,            \* per poll: value (epoch, balance, status) its query returned
  prevSeen,            \* per poll: value the previous query had returned
  lastSeen,            \* value returned by the most recent query of the node
  queried,             \* per poll: block range passed to getContractEvents
  input,               \* execute: parameters, credentials, input items
  xpc,                 \* execute: "start" | "item" | "await" | "returned" | "thrown"
  itemIndex,           \* execute: loop variable i (1-based here)
  hubClient,           \* execute: hubClient is not null
  verseClient,         \* execute: verseClient is not null
  returnData,          \* execute: records pushed so far
  output,              \* execute: what the caller receives ("none" until then)
  sent,                \* transactions submitted, by item, in order
  calls,               \* RPC calls issued, by item, in order
  itemFailed,          \* items whose processing raised an error
  threwAt,             \* item at which execute threw (0: before the loop)
  bDirection,          \* bridge: direction of the tracked transaction
  bReceipt,            \* bridge: the transaction's receipt on its chain
  bHeight,             \* bridge: height of the chain the transaction is on
  bpc,                 \* getBridgeStatus: "idle" | "height"
  bSeen,               \* getBridgeStatus: the receipt it fetched
  bStatus,             \* getBridgeStatus: what the last completed call saw and returned
  uArgs,               \* utilities: the arguments of the calls
  uValidation,         \* utilities: result of validateBridgeAmount
  uDirection,          \* utilities: result of getBridgeDirection
  uLayer,              \* utilities: result of getLayerFromChainId
  uLimits,             \* bridge getLimits: the limits reported
  cCall,               \* client method call: client, method, key, amount
  cpc,                 \* client method call: "start" | "await" | "returned" | "thrown"
  cError,              \* client method call: message of the error thrown
  cSubmitted,          \* client method call: transactions handed to the provider
  fCall,               \* pure function call: function name and arguments
  fResult,             \* pure function call: the value returned
  emitted,             \* block numbers returned by the polls before the latest
  sQuery,              \* getStakingInfo: the validators and what the chain holds
  spc,                 \* getStakingInfo: position in the method
  sIndex,              \* getStakingInfo: index of the validator being queried
  delegations,         \* getStakingInfo: the delegations collected
  totalStaked,         \* getStakingInfo: running sum of the amounts
  totalRewards,        \* getStakingInfo: running sum of the rewards
  sFailed,             \* getStakingInfo: indices whose query was rejected
  sResult              \* getStakingInfo: the object returned

tvars == <<nodeCfg, staticData, pc, cfg, lastProcessedBlock, currentBlock,
           blockNum, results, outcome, caught, failed, faults, sawNull, overlap,
           skipped, owner, readFrom, polls, observed, prevSeen, lastSeen,
           queried>>

xvars == <<input, xpc, itemIndex, hubClient, verseClient, returnData, output,
           sent, calls, itemFailed, threwAt>>

bvars == <<bDirection, bReceipt, bHeight, bpc, bSeen, bStatus>>

uvars == <<uArgs, uValidation, uDirection, uLayer, uLimits>>

cvars == <<cCall, cpc, cError, cSubmitted>>

fvars == <<fCall, fResult>>

hvars == <<emitted>>

svars == <<sQuery, spc, sIndex, delegations, totalStaked, totalRewards,
           sFailed, sResult>>

vars == <<tvars, xvars, bvars, uvars, cvars, fvars, hvars, svars>>

Active(p) == pc[p] \notin {"idle", "done"}

TriggerInit(configs) ==
  /\ nodeCfg \in configs
  /\ staticData = [k \in Keys |-> NoCursor]
  /\ pc = [p \in Procs |-> "idle"]
  /\ cfg = [p \in Procs |-> BaseCfg]
  /\ lastProcessedBlock = [p \in Procs |-> 0]
  /\ currentBlock = [p \in Procs |-> 0]
  /\ blockNum = [p \in Procs |-> 0]
  /\ results = [p \in Procs |-> <<>>]
  /\ outcome = [p \in Procs |-> "none"]
  /\ caught = [p \in Procs |-> FALSE]
  /\ failed = [p \in Procs |-> FALSE]
  /\ faults = 0
  /\ sawNull = [p \in Procs |-> FALSE]
  /\ overlap = [p \in Procs |-> FALSE]
  /\ skipped = {}
  /\ owner = [k \in Keys |-> NoChain]
  /\ readFrom = [p \in Procs |-> NoChain]
  /\ polls = 0
  /\ observed = [p \in Procs |-> NoValue]
  /\ prevSeen = [p \in Procs |-> NoValue]
  /\ lastSeen = NoValue
  /\ queried = [p \in Procs |-> NoRange]

\* ------------------------------------------------------------------------
\* Action node: inputs of one execution
\* ------------------------------------------------------------------------
\* The (resource, operation) pairs modelled, all offered by the parameter
\* schema. The last two have no branch in the dispatch of execute.
ExecOps ==
  { <<"wallet", "getBalance">>, <<"wallet", "transfer">>,
    <<"hub", "getBlock">>, <<"verse", "getInfo">>, <<"verse", "getStatus">>,
    <<"utility", "signMessage">>,
    <<"wallet", "getHistory">>, <<"collection", "getInfo">> }

\* Per-item parameters: the 'verse' parameter is the one the modelled
\* operations branch on.
ItemParams == [verse : {"homeVerse", "unknownVerse"}]

ItemLists == UNION { [1 .. n -> ItemParams] : n \in 0 .. MaxItems }

ExecInputs ==
  [op : ExecOps,
   credLayer : {"hubMainnet", "verse"},
   credVerse : {"", "unknownVerse"},
   privateKey : {"none", "valid", "bad"},
   continueOnFail : BOOLEAN,
   items : ItemLists]

\* Longest item list of a bridge execution.
MaxBridgeItems == 2

IdleInput ==
  [op |-> <<"wallet", "getBalance">>, credLayer |-> "hubMainnet",
   credVerse |-> "", privateKey |-> "none", continueOnFail |-> FALSE,
   items |-> <<>>]

ExecInit(inputs) ==
  /\ input \in inputs
  /\ xpc = "start"
  /\ itemIndex = 1
  /\ hubClient = FALSE
  /\ verseClient = FALSE
  /\ returnData = <<>>
  /\ output = "none"
  /\ sent = <<>>
  /\ calls = <<>>
  /\ itemFailed = {}
  /\ threwAt = 0

\* ------------------------------------------------------------------------
\* Bridge: a tracked bridge transaction and the chain it is on
\* ------------------------------------------------------------------------
\* The latest block in which the tracked transaction may be mined.
MaxReceiptBlock == 2

\* Blocks the chain produces beyond the confirmations of the latest receipt.
ExtraBlocks == 0

\* BRIDGE_CONFIG.depositConfirmations
DepositConfirmations == 64

\* The chain is followed until every receipt can have its confirmations.
MaxBridgeHeight == MaxReceiptBlock + DepositConfirmations + ExtraBlocks

NoReceipt == [present |-> FALSE, status |-> 0, blockNumber |-> 0]

\* A receipt: status 1 (success) or 0 (reverted), mined in block b.
Receipt(st, b) == [present |-> TRUE, status |-> st, blockNumber |-> b]

\* { status, confirmations, requiredConfirmations }
StatusRec(s, c, r) ==
  [status |-> s, confirmations |-> c, requiredConfirmations |-> r]

\* No call of getBridgeStatus has completed yet.
NoStatus ==
  [seen |-> NoReceipt, height |-> -1, result |-> StatusRec("none", 0, 0)]

BridgeInit(dirs) ==
  /\ bDirection \in dirs
  /\ bReceipt = NoReceipt
  /\ bHeight = 0
  /\ bpc = "idle"
  /\ bSeen = NoReceipt
  /\ bStatus = NoStatus

\* ------------------------------------------------------------------------
\* Bridge and layer utilities: arguments
\* ------------------------------------------------------------------------
\* Amounts are held in units of 10^14 wei (0.0001 OAS).
UnitsPerOas == 10000

\* BRIDGE_CONFIG.minDeposit: '1000000000000000' wei, 0.001 OAS
MinDeposit == 10

\* BRIDGE_CONFIG.maxDeposit: '100000000000000000000000' wei, 100,000 OAS
MaxDeposit == 1000000000

\* How far around zero and around each limit the amounts tried reach.
AmountSpread == 1

Amounts ==
  ((0 - AmountSpread) .. 0)
    \cup ((MinDeposit - AmountSpread) .. (MinDeposit + AmountSpread))
    \cup ((MaxDeposit - AmountSpread) .. (MaxDeposit + AmountSpread))

\* Hub mainnet is 248, testnet is 9372
HubChainIds == {248, 9372}

\* The chainId fields of VERSES.
VerseChainIds == {19011, 29548, 2400, 7225878, 5555, 16116, 50006, 75512}

\* Chain ids of neither layer.
OtherChainIds == {1, 999999}

ChainIds == HubChainIds \cup VerseChainIds \cup OtherChainIds

UtilArgs ==
  [amount : Amounts, direction : {"deposit", "withdraw"},
   src : ChainIds, dst : ChainIds]

IdleArgs == [amount |-> 0, direction |-> "deposit", src |-> 248, dst |-> 248]

NoValidation == [set |-> FALSE, isValid |-> FALSE, error |-> "none"]

NoLimits ==
  [set |-> FALSE,
   deposit |-> [minAmount |-> 0, maxAmount |-> 0],
   withdrawal |-> [minAmount |-> 0, maxAmount |-> 0]]

UtilInit(args) ==
  /\ uArgs \in args
  /\ uValidation = NoValidation
  /\ uDirection = "unset"
  /\ uLayer = "unset"
  /\ uLimits = NoLimits

\* if (!receipt) return { status: 'pending', confirmations: 0, ... }
NoReceiptStatus == StatusRec("pending", 0, DepositConfirmations)

\* Variant: the threshold itself does not yet count as confirmed.
DepositStatus_Strict(confirmations) ==
  IF confirmations > DepositConfirmations
    THEN StatusRec("completed", confirmations, DepositConfirmations)
    ELSE StatusRec("pending", confirmations, DepositConfirmations)

\* if (confirmations >= BRIDGE_CONFIG.depositConfirmations) 'completed',
\* else the final return: 'pending'
DepositStatus(confirmations) ==
  IF confirmations >= DepositConfirmations
    THEN StatusRec("completed", confirmations, DepositConfirmations)
    ELSE StatusRec("pending", confirmations, DepositConfirmations)

\* Variant: a withdrawal completes by confirmations like a deposit.
WithdrawStatus_Confirming(confirmations) ==
  IF confirmations >= DepositConfirmations
    THEN StatusRec("completed", confirmations, 0)
    ELSE StatusRec("challenge", confirmations, 0)

\* else { return { status: 'challenge', confirmations, requiredConfirmations: 0 } }
WithdrawStatus(confirmations) == StatusRec("challenge", confirmations, 0)

\* Variant: a deposit counts as completed only at the threshold itself.
GetBridgeStatus_ExactThreshold(direction, receipt, cur) ==
  LET confirmations == cur - receipt.blockNumber IN
  IF receipt.status = 0
    THEN StatusRec("failed", confirmations, DepositConfirmations)
  ELSE IF direction = "deposit"
    THEN (IF confirmations = DepositConfirmations
            THEN StatusRec("completed", confirmations, DepositConfirmations)
            ELSE StatusRec("pending", confirmations, DepositConfirmations))
  ELSE WithdrawStatus(confirmations)

\* getBridgeStatus once the receipt exists and the height is known.
GetBridgeStatus(direction, receipt, cur) ==
  LET confirmations == cur - receipt.blockNumber IN
  IF receipt.status = 0
    THEN StatusRec("failed", confirmations, DepositConfirmations)
  ELSE IF direction = "deposit" THEN DepositStatus(confirmations)
  ELSE WithdrawStatus(confirmations)

\* status.status === 'completed' || status.status === 'failed'
IsBridgeFinalized(status) == status.status \in {"completed", "failed"}

\* The chain produces a block.
MineBlock ==
  /\ bHeight < MaxBridgeHeight
  /\ bHeight' = bHeight + 1
  /\ UNCHANGED <<bDirection, bReceipt, bpc, bSeen, bStatus>>
  /\ UNCHANGED <<tvars, xvars, uvars, cvars, fvars, hvars, svars>>

\* The tracked transaction is included in the latest block, successfully or
\* reverted.
TxMined ==
  /\ ~bReceipt.present
  /\ bHeight >= 1 /\ bHeight <= MaxReceiptBlock
  /\ \E st \in {0, 1} : bReceipt' = Receipt(st, bHeight)
  /\ UNCHANGED <<bDirection, bHeight, bpc, bSeen, bStatus>>
  /\ UNCHANGED <<tvars, xvars, uvars, cvars, fvars, hvars, svars>>

\* getBridgeStatus: provider.getTransactionReceipt(txHash) resolves.
ReceiptReturns ==
  /\ bpc = "idle"
  /\ IF ~bReceipt.present
       THEN /\ bStatus' = [seen |-> NoReceipt, height |-> bHeight,
                           result |-> NoReceiptStatus]
            /\ UNCHANGED <<bpc, bSeen>>
       ELSE /\ bpc' = "height"
            /\ bSeen' = bReceipt
            /\ UNCHANGED bStatus
  /\ UNCHANGED <<bDirection, bReceipt, bHeight>>
  /\ UNCHANGED <<tvars, xvars, uvars, cvars, fvars, hvars, svars>>

\* getBridgeStatus: provider.getBlockNumber() resolves; the call returns.
HeightReturns ==
  /\ bpc = "height"
  /\ bStatus' = [seen |-> bSeen, height |-> bHeight,
                 result |-> GetBridgeStatus(bDirection, bSeen, bHeight)]
  /\ bpc' = "idle"
  /\ UNCHANGED <<bDirection, bReceipt, bHeight, bSeen>>
  /\ UNCHANGED <<tvars, xvars, uvars, cvars, fvars, hvars, svars>>

\* ------------------------------------------------------------------------
\* Pure functions: one call and its result
\* ------------------------------------------------------------------------
IdleFn == [fn |-> "none"]

NoResult == [set |-> FALSE]

FnInit(fcalls) ==
  /\ fCall \in fcalls
  /\ fResult = NoResult

\* No poll has returned yet.
HistoryInit == emitted = {}

\* Longest validator list returned by the stake manager.
MaxValidators == 3

Validators == {"v1", "v2"}

\* What the stake manager answers: the validator list (an address may be
\* listed twice) and, per validator, the delegation and the pending rewards
\* of the address asked about.
StakingQueries ==
  [validators : UNION { [1 .. n -> Validators] : n \in 0 .. MaxValidators },
   delegation : [Validators -> 0 .. 2],
   rewards : [Validators -> {0, 3}]]

IdleStaking ==
  [validators |-> <<>>, delegation |-> [v \in Validators |-> 0],
   rewards |-> [v \in Validators |-> 0]]

StakingInit(queries) ==
  /\ sQuery \in queries
  /\ spc = "start"
  /\ sIndex = 1
  /\ delegations = <<>>
  /\ totalStaked = 0
  /\ totalRewards = 0
  /\ sFailed = {}
  /\ sResult = NoResult

\* ------------------------------------------------------------------------
\* Unit conversion (ethers formatUnits / parseUnits on decimal strings)
\* ------------------------------------------------------------------------
\* A bigint is held as its decimal digits, most significant first, without
\* leading zeros (zero is <<0>>); a decimal string as the digits before and
\* after the point.
MaxPrefix == 2

MaxZeros == 18

\* OAS uses 18 decimal places
OasDecimals == 18

GweiDecimals == 9

Zeros(n) == [i \in 1 .. n |-> 0]

RECURSIVE StripTrailingZeros(_)
StripTrailingZeros(s) ==
  IF s = <<>> THEN <<>>
  ELSE IF s[Len(s)] = 0 THEN StripTrailingZeros(SubSeq(s, 1, Len(s) - 1))
  ELSE s

RECURSIVE StripLeadingZeros(_)
StripLeadingZeros(s) ==
  IF Len(s) <= 1 THEN s
  ELSE IF s[1] = 0 THEN StripLeadingZeros(SubSeq(s, 2, Len(s)))
  ELSE s

Decimal(int, frac) == [int |-> int, frac |-> frac]

\* formatUnits(value, d): the value with the point d digits from the right,
\* trailing zeros of the fraction dropped but one digit kept ("1.0").
FormatUnits(w, d) ==
  LET padded == IF Len(w) <= d THEN Zeros(d + 1 - Len(w)) \o w ELSE w
      int == SubSeq(padded, 1, Len(padded) - d)
      frac == StripTrailingZeros(SubSeq(padded, Len(padded) - d + 1, Len(padded)))
  IN Decimal(int, IF frac = <<>> THEN <<0>> ELSE frac)

\* Variant: the fraction is not padded to d digits.
ParseUnits_NoPad(s, d) ==
  IF Len(s.frac) > d THEN [threw |-> TRUE, value |-> <<0>>]
  ELSE [threw |-> FALSE, value |-> StripLeadingZeros(s.int \o s.frac)]

\* parseUnits(text, d): throws when the fraction has more than d digits,
\* otherwise the integer text * 10^d.
ParseUnits(s, d) ==
  IF Len(s.frac) > d THEN [threw |-> TRUE, value |-> <<0>>]
  ELSE [threw |-> FALSE,
        value |-> StripLeadingZeros(s.int \o s.frac \o Zeros(d - Len(s.frac)))]

Decimals(unit) == IF unit = "oas" THEN OasDecimals ELSE GweiDecimals

\* Wei amounts tried: a short prefix of digits followed by zeros, zero, and
\* the amount used by the unit tests.
Prefixes ==
  { s \in UNION { [1 .. n -> {0, 1, 5, 9}] : n \in 1 .. MaxPrefix } : s[1] # 0 }

TestWei == <<1, 2, 3, 4, 5, 6, 7, 8, 9>> \o Zeros(10)

WeiInputs ==
  { p \o Zeros(k) : p \in Prefixes, k \in 0 .. MaxZeros }
    \cup {<<0>>, TestWei}

RoundTripCalls == [fn : {"roundTrip"}, unit : {"oas", "gwei"}, wei : WeiInputs]

\* weiToOas(wei) / weiToGwei(wei)
WeiToUnit ==
  /\ fCall.fn = "roundTrip" /\ ~fResult.set
  /\ fResult' = [set |-> TRUE, parsed |-> FALSE,
                 text |-> FormatUnits(fCall.wei, Decimals(fCall.unit))]
  /\ UNCHANGED fCall
  /\ UNCHANGED <<tvars, xvars, bvars, uvars, cvars, hvars, svars>>

\* oasToWei(text) / gweiToWei(text) on the string just produced
UnitToWei ==
  /\ fCall.fn = "roundTrip" /\ fResult.set /\ ~fResult.parsed
  /\ fResult' = [set |-> TRUE, parsed |-> TRUE, text |-> fResult.text,
                 back |-> ParseUnits(fResult.text, Decimals(fCall.unit))]
  /\ UNCHANGED fCall
  /\ UNCHANGED <<tvars, xvars, bvars, uvars, cvars, hvars, svars>>

\* formatOas(wei) uses decimals = 4
DisplayDecimals == 4

RECURSIVE IncrDigits(_)
IncrDigits(s) ==
  IF s = <<>> THEN <<1>>
  ELSE IF s[Len(s)] = 9 THEN IncrDigits(SubSeq(s, 1, Len(s) - 1)) \o <<0>>
  ELSE [s EXCEPT ![Len(s)] = @ + 1]

\* parseFloat(text).toFixed(n): the value rounded to n decimals. parseFloat
\* gives the nearest double, so a value exactly halfway between two
\* n-digit decimals may be rendered either way.
ToFixedOutcomes(s, n) ==
  LET frac == s.frac \o Zeros(n + 1)
      kept == s.int \o SubSeq(frac, 1, n)
      rest == StripTrailingZeros(SubSeq(frac, n + 1, Len(frac)))
      split(ds) == Decimal(SubSeq(ds, 1, Len(ds) - n),
                           SubSeq(ds, Len(ds) - n + 1, Len(ds)))
      down == split(kept)
      up == split(IncrDigits(kept))
  IN IF rest = <<>> THEN {down}
     ELSE IF rest = <<5>> THEN {down, up}
     ELSE IF rest[1] >= 5 THEN {up}
     ELSE {down}

FormatOasCalls == [fn : {"formatOas"}, wei : WeiInputs]

\* formatOas(wei) -> formatOasBalance(wei, 4):
\* parseFloat(weiToOas(wei)).toFixed(4)
FormatOas ==
  /\ fCall.fn = "formatOas" /\ ~fResult.set
  /\ \E r \in ToFixedOutcomes(FormatUnits(fCall.wei, OasDecimals),
                               DisplayDecimals) :
       fResult' = [set |-> TRUE, shown |-> r]
  /\ UNCHANGED fCall
  /\ UNCHANGED <<tvars, xvars, bvars, uvars, cvars, hvars, svars>>

\* ------------------------------------------------------------------------
\* Bridge client creation
\* ------------------------------------------------------------------------
\* HUB_MAINNET.rpcUrl / HUB_TESTNET.rpcUrl
HubMainnetRpc == "https://rpc.mainnet.oasys.games"

HubTestnetRpc == "https://rpc.testnet.oasys.games"

\* The credential's 'layer' options.
CredLayers == {"hubMainnet", "verse", "hubTestnet", "custom"}

\* The network credentials of the node and the 'verse' parameter.
BridgeClientCalls ==
  [fn : {"createBridgeClient"}, layer : CredLayers,
   customRpcUrl : {"", "https://rpc.example"},
   verse : {"homeVerse", "unknownVerse"}]

\* execute passes { layer: networkLayer, privateKey } to createBridgeClient:
\* the custom RPC URL of the credentials is not handed over.
HubCredentials(call) == [layer |-> call.layer, customRpcUrl |-> "undefined"]

\* switch (hubCredentials.layer): 'hub' -> mainnet; 'custom' ->
\* customRpcUrl ?? mainnet; default -> mainnet
HubRpcUrl(cred) ==
  IF cred.layer = "hub" THEN HubMainnetRpc
  ELSE IF cred.layer = "custom"
    THEN (IF cred.customRpcUrl = "undefined" THEN HubMainnetRpc
          ELSE cred.customRpcUrl)
  ELSE HubMainnetRpc

\* createBridgeClient(hubCredentials, verseKey)
CreateBridgeClient ==
  /\ fCall.fn = "createBridgeClient" /\ ~fResult.set
  /\ fResult' =
       IF VerseNotFound(fCall.verse)
         THEN [set |-> TRUE, threw |-> TRUE, hubRpcUrl |-> ""]
         ELSE [set |-> TRUE, threw |-> FALSE,
               hubRpcUrl |-> HubRpcUrl(HubCredentials(fCall))]
  /\ UNCHANGED fCall
  /\ UNCHANGED <<tvars, xvars, bvars, uvars, cvars, hvars, svars>>

\* ------------------------------------------------------------------------
\* State-changing client methods
\* ------------------------------------------------------------------------
WalletNotConfigured == "Wallet not configured - private key required"

\* The methods of the three clients that submit a transaction.
StateChangingMethods ==
  ({"hub"} \X {"transfer", "transferToken", "transferNft", "writeContract",
               "stake", "unstake", "claimRewards"})
    \cup ({"verse"} \X {"transfer", "transferToken", "transferNft",
                        "writeContract", "transferErc1155"})
    \cup ({"bridge"} \X {"depositOas", "depositErc20", "withdrawOas",
                         "withdrawErc20"})

\* A call of one method on a client built with or without a private key.
ClientCalls ==
  [method : StateChangingMethods, privateKey : {"none", "valid"},
   amount : Amounts]

IdleCall ==
  [method |-> <<"hub", "transfer">>, privateKey |-> "none", amount |-> 0]

ClientInit(cs) ==
  /\ cCall \in cs
  /\ cpc = "start"
  /\ cError = "none"
  /\ cSubmitted = 0

\* Constructors: if (config.privateKey) { this.wallet = new Wallet(...) };
\* BridgeClient sets hubWallet and verseWallet the same way. The contracts
\* (stakeManager, l1Bridge, l2Bridge) are always built.
WalletSet(call) == call.privateKey # "none"

\* Variant: the bridge methods test only the contract, which is always set.
RequireWallet_ContractOnly(call) ==
  IF call.method[1] = "bridge" THEN "none"
  ELSE IF WalletSet(call) THEN "none" ELSE WalletNotConfigured

\* if (!this.wallet) throw new Error('Wallet not configured - ...'), the
\* first statement of every state-changing method.
RequireWallet(call) ==
  IF WalletSet(call) THEN "none" ELSE WalletNotConfigured

\* depositOas re-validates the amount after the wallet test; the other
\* methods have no further local test.
LocalCheck(call) ==
  IF call.method = <<"bridge", "depositOas">> /\ call.amount < MinDeposit
    THEN "Amount below minimum deposit"
  ELSE IF call.method = <<"bridge", "depositOas">> /\ call.amount > MaxDeposit
    THEN "Amount exceeds maximum deposit"
  ELSE "none"

\* The method body up to the awaited sendTransaction / contract call.
MethodStart ==
  /\ cpc = "start"
  /\ IF RequireWallet(cCall) # "none"
       THEN cpc' = "thrown" /\ cError' = RequireWallet(cCall)
     ELSE IF LocalCheck(cCall) # "none"
       THEN cpc' = "thrown" /\ cError' = LocalCheck(cCall)
     ELSE cpc' = "await" /\ cError' = cError
  /\ UNCHANGED <<cCall, cSubmitted>>
  /\ UNCHANGED <<tvars, xvars, bvars, uvars, fvars, hvars, svars>>

\* The provider accepts the signed transaction or the call rejects. Without
\* a wallet the contract is bound to the provider and has no signer.
SubmitReturns ==
  /\ cpc = "await"
  /\ \E ok \in BOOLEAN :
       IF ok /\ WalletSet(cCall)
         THEN cpc' = "returned" /\ cSubmitted' = cSubmitted + 1
                /\ cError' = cError
         ELSE cpc' = "thrown" /\ cError' = "rejected"
                /\ cSubmitted' = cSubmitted
  /\ UNCHANGED cCall
  /\ UNCHANGED <<tvars, xvars, bvars, uvars, fvars, hvars, svars>>

InitClient ==
  TriggerInit({BaseCfg}) /\ ExecInit({IdleInput})
    /\ BridgeInit({"deposit"}) /\ UtilInit({IdleArgs})
    /\ ClientInit(ClientCalls) /\ FnInit({IdleFn}) /\ HistoryInit
    /\ StakingInit({IdleStaking})

NextClient ==
  \/ MethodStart
  \/ SubmitReturns

SpecClient == InitClient /\ [][NextClient]_vars

\* ------------------------------------------------------------------------
\* HubClient.getStakingInfo
\* ------------------------------------------------------------------------
\* Variant: a delegation of zero is listed too.
IsDelegated_OrZero(delegation) == delegation >= 0

\* if (delegation > 0n)
IsDelegated(delegation) == delegation > 0

\* for (const validator of validators): after validator i, query the next
\* one or return { totalStaked, validators, delegations, totalRewards }.
NextValidator(i, ds, staked, rewarded) ==
  IF i + 1 <= Len(sQuery.validators)
    THEN /\ spc' = "delegation"
         /\ sIndex' = i + 1
         /\ sResult' = sResult
    ELSE /\ spc' = "returned"
         /\ sIndex' = i + 1
         /\ sResult' = [set |-> TRUE,
                        totalStaked |-> staked,
                        validators |-> [k \in 1 .. Len(ds) |-> ds[k].validator],
                        delegations |-> ds,
                        totalRewards |-> rewarded]

\* const validators = await this.getValidators()  (call issued)
GetStakingInfoStart ==
  /\ spc = "start" /\ sQuery # IdleStaking
  /\ spc' = "validators"
  /\ UNCHANGED <<sQuery, sIndex, delegations, totalStaked, totalRewards,
                 sFailed, sResult>>
  /\ UNCHANGED <<tvars, xvars, bvars, uvars, cvars, fvars, hvars>>

\* getValidators resolves, or rejects and getStakingInfo rejects with it.
ValidatorsReturn ==
  /\ spc = "validators"
  /\ \E ok \in BOOLEAN :
       IF ok
         THEN NextValidator(0, delegations, totalStaked, totalRewards)
         ELSE spc' = "thrown" /\ UNCHANGED <<sIndex, sResult>>
  /\ UNCHANGED <<sQuery, delegations, totalStaked, totalRewards, sFailed>>
  /\ UNCHANGED <<tvars, xvars, bvars, uvars, cvars, fvars, hvars>>

\* await this.getDelegation(address, validator) resolves or rejects.
DelegationReturns ==
  LET i == sIndex
      delegation == sQuery.delegation[sQuery.validators[i]]
  IN
  /\ spc = "delegation"
  /\ \E ok \in BOOLEAN :
       IF ok
         THEN /\ IF IsDelegated(delegation)
                   THEN spc' = "rewards" /\ UNCHANGED <<sIndex, sResult>>
                   ELSE NextValidator(i, delegations, totalStaked,
                                      totalRewards)
              /\ UNCHANGED sFailed
         ELSE /\ sFailed' = sFailed \cup {i}
              /\ NextValidator(i, delegations, totalStaked, totalRewards)
  /\ UNCHANGED <<sQuery, delegations, totalStaked, totalRewards>>
  /\ UNCHANGED <<tvars, xvars, bvars, uvars, cvars, fvars, hvars>>

\* await this.getRewards(address, validator) resolves: push and add up; or
\* rejects: the catch skips the validator.
RewardsReturn ==
  LET i == sIndex
      validator == sQuery.validators[i]
      delegation == sQuery.delegation[validator]
      rewards == sQuery.rewards[validator]
      pushed == Append(delegations, [validator |-> validator,
                                     amount |-> delegation,
                                     rewards |-> rewards])
  IN
  /\ spc = "rewards"
  /\ \E ok \in BOOLEAN :
       IF ok
         THEN /\ delegations' = pushed
              /\ totalStaked' = totalStaked + delegation
              /\ totalRewards' = totalRewards + rewards
              /\ NextValidator(i, pushed, totalStaked + delegation,
                               totalRewards + rewards)
              /\ UNCHANGED sFailed
         ELSE /\ sFailed' = sFailed \cup {i}
              /\ NextValidator(i, delegations, totalStaked, totalRewards)
              /\ UNCHANGED <<delegations, totalStaked, totalRewards>>
  /\ UNCHANGED sQuery
  /\ UNCHANGED <<tvars, xvars, bvars, uvars, cvars, fvars, hvars>>

InitStaking ==
  TriggerInit({BaseCfg}) /\ ExecInit({IdleInput})
    /\ BridgeInit({"deposit"}) /\ UtilInit({IdleArgs})
    /\ ClientInit({IdleCall}) /\ FnInit({IdleFn}) /\ HistoryInit
    /\ StakingInit(StakingQueries \ {IdleStaking})

NextStaking ==
  \/ GetStakingInfoStart
  \/ ValidatorsReturn
  \/ DelegationReturns
  \/ RewardsReturn

SpecStaking == InitStaking /\ [][NextStaking]_vars

\* ------------------------------------------------------------------------
\* Bridge and layer utilities
\* ------------------------------------------------------------------------
\* getDefaultBridgeLimits(); remainingDailyLimit is left undefined (0 here).
GetDefaultBridgeLimits ==
  [minDeposit |-> MinDeposit, maxDeposit |-> MaxDeposit,
   minWithdraw |-> MinDeposit, maxWithdraw |-> MaxDeposit,
   remainingDailyLimit |-> 0]

Validation(ok, err) == [set |-> TRUE, isValid |-> ok, error |-> err]

\* Variant: the minimum itself is rejected.
ValidateBridgeAmount_Exclusive(amount, direction, limits) ==
  LET min == IF direction = "deposit" THEN limits.minDeposit
             ELSE limits.minWithdraw
      max == IF direction = "deposit" THEN limits.maxDeposit
             ELSE limits.maxWithdraw
  IN IF amount <= min THEN Validation(FALSE, "Amount below minimum")
     ELSE IF amount > max THEN Validation(FALSE, "Amount exceeds maximum")
     ELSE IF limits.remainingDailyLimit # 0
               /\ amount > limits.remainingDailyLimit
       THEN Validation(FALSE, "Amount exceeds remaining daily limit")
     ELSE Validation(TRUE, "none")

\* validateBridgeAmount(amount, direction, limits)
ValidateBridgeAmount(amount, direction, limits) ==
  LET min == IF direction = "deposit" THEN limits.minDeposit
             ELSE limits.minWithdraw
      max == IF direction = "deposit" THEN limits.maxDeposit
             ELSE limits.maxWithdraw
  IN IF amount < min THEN Validation(FALSE, "Amount below minimum")
     ELSE IF amount > max THEN Validation(FALSE, "Amount exceeds maximum")
     ELSE IF limits.remainingDailyLimit # 0
               /\ amount > limits.remainingDailyLimit
       THEN Validation(FALSE, "Amount exceeds remaining daily limit")
     ELSE Validation(TRUE, "none")

\* if (chainId === 248 || chainId === 9372) return 'hub'; return 'verse'
GetLayerFromChainId(chainId) ==
  IF chainId = 248 \/ chainId = 9372 THEN "hub" ELSE "verse"

\* Variant: any destination off the Hub counts as a Verse.
GetBridgeDirection_AnyVerse(src, dst) ==
  IF src \in HubChainIds /\ dst \notin HubChainIds THEN "deposit"
  ELSE IF src \notin HubChainIds /\ dst \in HubChainIds THEN "withdraw"
  ELSE "null"

\* getBridgeDirection(sourceChainId, destinationChainId): deposit if the
\* source is Hub and the destination a Verse, withdraw if the reverse,
\* otherwise no direction.
GetBridgeDirection(src, dst) ==
  IF src \in HubChainIds /\ dst \in VerseChainIds THEN "deposit"
  ELSE IF src \in VerseChainIds /\ dst \in HubChainIds THEN "withdraw"
  ELSE "null"

\* The bridge 'getLimits' result: minAmount '0.01 OAS', maxAmount
\* '10,000 OAS per transaction', for deposit and for withdrawal.
ReportedLimits ==
  [set |-> TRUE,
   deposit |-> [minAmount |-> UnitsPerOas \div 100,
                maxAmount |-> 10000 * UnitsPerOas],
   withdrawal |-> [minAmount |-> UnitsPerOas \div 100,
                   maxAmount |-> 10000 * UnitsPerOas]]

\* validateBridgeAmount(amountWei, direction) as execute calls it.
Validate ==
  /\ ~uValidation.set
  /\ uValidation' =
       ValidateBridgeAmount(uArgs.amount, uArgs.direction, GetDefaultBridgeLimits)
  /\ UNCHANGED <<uArgs, uDirection, uLayer, uLimits>>
  /\ UNCHANGED <<tvars, xvars, bvars, cvars, fvars, hvars, svars>>

InferDirection ==
  /\ uDirection = "unset"
  /\ uDirection' = GetBridgeDirection(uArgs.src, uArgs.dst)
  /\ UNCHANGED <<uArgs, uValidation, uLayer, uLimits>>
  /\ UNCHANGED <<tvars, xvars, bvars, cvars, fvars, hvars, svars>>

ClassifyLayer ==
  /\ uLayer = "unset"
  /\ uLayer' = GetLayerFromChainId(uArgs.src)
  /\ UNCHANGED <<uArgs, uValidation, uDirection, uLimits>>
  /\ UNCHANGED <<tvars, xvars, bvars, cvars, fvars, hvars, svars>>

\* execute, resource 'bridge', operation 'getLimits'.
GetLimits ==
  /\ ~uLimits.set
  /\ uLimits' = ReportedLimits
  /\ UNCHANGED <<uArgs, uValidation, uDirection, uLayer>>
  /\ UNCHANGED <<tvars, xvars, bvars, cvars, fvars, hvars, svars>>

InitUtil ==
  TriggerInit({BaseCfg}) /\ ExecInit({IdleInput})
    /\ BridgeInit({"deposit"}) /\ UtilInit(UtilArgs)
    /\ ClientInit({IdleCall}) /\ FnInit({IdleFn}) /\ HistoryInit
    /\ StakingInit({IdleStaking})

NextUtil ==
  \/ Validate
  \/ InferDirection
  \/ ClassifyLayer
  \/ GetLimits

SpecUtil == InitUtil /\ [][NextUtil]_vars

\* One bridge transaction, followed from before it is mined.
InitBridge ==
  TriggerInit({BaseCfg}) /\ ExecInit({IdleInput})
    /\ BridgeInit({"deposit", "withdraw"}) /\ UtilInit({IdleArgs})
    /\ ClientInit({IdleCall}) /\ FnInit({IdleFn}) /\ HistoryInit
    /\ StakingInit({IdleStaking})

NextBridge ==
  \/ MineBlock
  \/ TxMined
  \/ ReceiptReturns
  \/ HeightReturns

SpecBridge == InitBridge /\ [][NextBridge]_vars

\* The chain keeps producing blocks and the status keeps being queried.
SpecBridgeLive ==
  /\ InitBridge /\ [][NextBridge]_vars
  /\ WF_vars(MineBlock)
  /\ WF_vars(ReceiptReturns)
  /\ WF_vars(HeightReturns)

\* One call of one of the pure functions.
\* ------------------------------------------------------------------------
\* Staking rewards
\* ------------------------------------------------------------------------
\* Largest total stake of the validator and largest small reward tried.
MaxStake == 4

MaxRewards == 3

RewardAmounts == (0 .. MaxRewards) \cup {10000, 12345}

CommissionRates == {0, 1, 10, 50, 99, 100}

\* The delegations of one or two delegators of a validator: each is at most
\* the validator's total stake, and so is their sum.
DelegationLists(total) ==
  { <<a>> : a \in 0 .. total }
    \cup { s \in (0 .. total) \X (0 .. total) : s[1] + s[2] <= total }

DelegatorRewardsCalls ==
  UNION { [fn : {"calculateDelegatorRewards"},
           delegated : DelegationLists(total),
           totalValidatorStake : {total},
           validatorRewards : RewardAmounts,
           commissionRate : CommissionRates] : total \in 0 .. MaxStake }

\* Variant: the commission is not deducted.
CalculateDelegatorRewards_Gross(delegated, totalStake, validatorRewards, rate) ==
  IF totalStake = 0 THEN 0
  ELSE LET sharePercentage == (delegated * 10000) \div totalStake
       IN (validatorRewards * sharePercentage) \div 10000

\* calculateDelegatorRewards(delegatedAmount, totalValidatorStake,
\* validatorRewards, commissionRate); bigint division truncates.
CalculateDelegatorRewards(delegated, totalStake, validatorRewards, rate) ==
  IF totalStake = 0 THEN 0
  ELSE LET sharePercentage == (delegated * 10000) \div totalStake
           grossRewards == (validatorRewards * sharePercentage) \div 10000
           commission == (grossRewards * (rate * 100)) \div 10000
       IN grossRewards - commission

\* The function is applied to each delegator of the validator.
DelegatorRewards ==
  /\ fCall.fn = "calculateDelegatorRewards" /\ ~fResult.set
  /\ fResult' =
       [set |-> TRUE,
        rewards |-> [k \in 1 .. Len(fCall.delegated) |->
                       CalculateDelegatorRewards(fCall.delegated[k],
                                                 fCall.totalValidatorStake,
                                                 fCall.validatorRewards,
                                                 fCall.commissionRate)]]
  /\ UNCHANGED fCall
  /\ UNCHANGED <<tvars, xvars, bvars, uvars, cvars, hvars, svars>>

FnCalls ==
  RoundTripCalls \cup FormatOasCalls \cup BridgeClientCalls
    \cup DelegatorRewardsCalls

InitFn ==
  TriggerInit({BaseCfg}) /\ ExecInit({IdleInput})
    /\ BridgeInit({"deposit"}) /\ UtilInit({IdleArgs})
    /\ ClientInit({IdleCall}) /\ FnInit(FnCalls) /\ HistoryInit
    /\ StakingInit({IdleStaking})

NextFn ==
  \/ WeiToUnit
  \/ UnitToWei
  \/ FormatOas
  \/ CreateBridgeClient
  \/ DelegatorRewards

SpecFn == InitFn /\ [][NextFn]_vars

Init ==
  TriggerInit(AllConfigs) /\ ExecInit({IdleInput})
    /\ BridgeInit({"deposit"}) /\ UtilInit({IdleArgs})
    /\ ClientInit({IdleCall}) /\ FnInit({IdleFn}) /\ HistoryInit
    /\ StakingInit({IdleStaking})

\* ------------------------------------------------------------------------
\* OasysTrigger.poll, one action per await point
\* ------------------------------------------------------------------------
\* The newBlock loops exist in the hub category and in the verse branch.
EmitsBlocks(c) ==
  /\ c.event = "newBlock"
  /\ (c.category = "hub" \/ VerseBranch(c))

\* Variant: the height is stored whenever it differs from the cursor read.
UpdateState_Always(sd, key, last, cur) ==
  IF cur # last THEN [sd EXCEPT ![key] = cur] ELSE sd

\* if (currentBlock > lastProcessedBlock) workflowStaticData[stateKey] = currentBlock
UpdateState(sd, key, last, cur) ==
  IF cur > last THEN [sd EXCEPT ![key] = cur] ELSE sd

\* Variant: an empty result list is returned as a list.
PollReturn_NeverNull(res) == "results"

\* if (results.length === 0) return null; return [results]
PollReturn(res) == IF Len(res) = 0 THEN "null" ELSE "results"

\* Blocks of (last, cur] that the loop never visits.
LeftOut(c, last, cur) ==
  IF EmitsBlocks(c) /\ cur > last
    THEN { <<ChainOf(c), b>> : b \in (last + 1) .. (WindowStart(last, cur) - 1) }
    ELSE {}

\* Variant: the catch block rethrows.
CatchOutcome_Rethrow(res) == "thrown"

\* catch (error) { console.error(...) }: the error is logged, not rethrown,
\* and control falls through to the return statement.
CatchOutcome(res) == PollReturn(res)

\* The tail of poll(): the state update (skipped when an error was thrown
\* inside the try block: the catch only logs) and the return statement.
Complete(p, c, last, cur, res, err) ==
  /\ staticData' = IF err THEN staticData
                   ELSE UpdateState(staticData, StateKey(c), last, cur)
  /\ owner' = IF ~err /\ cur > last
                THEN [owner EXCEPT ![StateKey(c)] = ChainOf(c)] ELSE owner
  /\ skipped' = IF err THEN skipped ELSE skipped \cup LeftOut(c, last, cur)
  /\ currentBlock' = [currentBlock EXCEPT ![p] = cur]
  /\ results' = [results EXCEPT ![p] = res]
  /\ caught' = [caught EXCEPT ![p] = err]
  /\ outcome' = [outcome EXCEPT ![p] =
                    IF err THEN CatchOutcome(res) ELSE PollReturn(res)]
  /\ pc' = [pc EXCEPT ![p] = "done"]

\* What poll() does once the height h is known.
AfterHeight(c, last, h) ==
  IF c.category = "hub" THEN
    (IF c.event = "newBlock" /\ h > last THEN "getBlock"
     ELSE IF c.event = "epochChanged" THEN "query" ELSE "finish")
  ELSE IF HubBranch(c) THEN
    (IF c.watchAddress THEN "query" ELSE "finish")
  ELSE IF VerseBranch(c) THEN
    (IF c.event = "newBlock" /\ h > last THEN "getBlock"
     ELSE IF c.event = "statusChanged" THEN "query" ELSE "finish")
  ELSE IF c.category = "nft" THEN "finish"
  ELSE IF c.contractSet /\ h > last /\ c.abiOk THEN "events"
  ELSE "finish"

\* The record pushed by the single-query branches.
QueryRec(c, h) ==
  IF c.category = "hub" THEN Rec("epochChanged", ChainOf(c), 0)
  ELSE IF c.category = "wallet" THEN Rec("balanceCheck", ChainOf(c), h)
  ELSE IF c.category = "staking" THEN Rec(c.event, ChainOf(c), h)
  ELSE Rec("statusCheck", ChainOf(c), 0)

\* Start of poll(): parameters, credentials and the cursor are read, the
\* client is built, and the poll suspends on getBlockNumber().
PollStart(p) ==
  LET c == nodeCfg
      last == ReadCursor(staticData[StateKey(c)])
      others == { q \in Procs \ {p} : Active(q) }
  IN
  /\ pc[p] \in {"idle", "done"}
  /\ cfg' = [cfg EXCEPT ![p] = c]
  /\ lastProcessedBlock' = [lastProcessedBlock EXCEPT ![p] = last]
  /\ readFrom' = [readFrom EXCEPT ![p] = owner[StateKey(c)]]
  /\ overlap' = [q \in Procs |->
                   IF q = p THEN others # {}
                   ELSE IF q \in others THEN TRUE ELSE overlap[q]]
  /\ sawNull' = [sawNull EXCEPT ![p] = FALSE]
  /\ failed' = [failed EXCEPT ![p] = ClientThrows(c)]
  /\ blockNum' = [blockNum EXCEPT ![p] = 0]
  /\ observed' = [observed EXCEPT ![p] = NoValue]
  /\ prevSeen' = [prevSeen EXCEPT ![p] = NoValue]
  /\ queried' = [queried EXCEPT ![p] = NoRange]
  /\ IF ClientThrows(c) THEN
       Complete(p, c, last, 0, <<>>, TRUE)
     ELSE IF ChainOf(c) # NoChain THEN
       /\ pc' = [pc EXCEPT ![p] = "blockNumber"]
       /\ results' = [results EXCEPT ![p] = <<>>]
       /\ currentBlock' = [currentBlock EXCEPT ![p] = 0]
       /\ outcome' = [outcome EXCEPT ![p] = "none"]
       /\ caught' = [caught EXCEPT ![p] = FALSE]
       /\ UNCHANGED <<staticData, owner, skipped>>
     ELSE
       Complete(p, c, last, 0,
                IF c.category = "bridge"
                  THEN <<Rec(c.event, "Bridge", 0)>> ELSE <<>>,
                FALSE)
  /\ UNCHANGED <<nodeCfg, faults, lastSeen>>
  /\ UNCHANGED <<xvars, bvars, uvars, cvars, fvars, svars>>

\* getBlockNumber() resolves (h) or rejects (h = -1).
BlockNumberReturns(p) ==
  LET c == cfg[p]
      last == lastProcessedBlock[p]
  IN
  /\ pc[p] = "blockNumber"
  /\ \E h \in (-1) .. MaxHeight :
       IF h = -1 THEN
         /\ faults < MaxFaults
         /\ faults' = faults + 1
         /\ failed' = [failed EXCEPT ![p] = TRUE]
         /\ Complete(p, c, last, 0, results[p], TRUE)
         /\ UNCHANGED blockNum
       ELSE IF AfterHeight(c, last, h) = "finish" THEN
         /\ Complete(p, c, last, h,
                     IF c.category = "nft"
                       THEN <<Rec(c.event, ChainOf(c), h)>> ELSE results[p],
                     FALSE)
         \* JSON.parse(abi) throwing is swallowed by the inner try/catch
         /\ failed' = [failed EXCEPT ![p] =
                         /\ c.category = "contract"
                         /\ c.contractSet /\ h > last /\ ~c.abiOk]
         /\ UNCHANGED <<faults, blockNum>>
       ELSE
         /\ pc' = [pc EXCEPT ![p] = AfterHeight(c, last, h)]
         /\ currentBlock' = [currentBlock EXCEPT ![p] = h]
         /\ blockNum' = [blockNum EXCEPT ![p] =
                           IF AfterHeight(c, last, h) = "getBlock"
                             THEN WindowStart(last, h) ELSE 0]
         /\ UNCHANGED <<staticData, owner, skipped, results, caught, outcome,
                        faults, failed>>
  /\ queried' = [queried EXCEPT ![p] =
                    IF pc'[p] = "events"
                      THEN QueryRange(last, currentBlock'[p]) ELSE @]
  /\ UNCHANGED <<nodeCfg, cfg, lastProcessedBlock, sawNull, overlap, readFrom,
                 polls, observed, prevSeen, lastSeen>>
  /\ UNCHANGED <<xvars, bvars, uvars, cvars, fvars, hvars, svars>>

\* getBlock(blockNum) resolves with a block, with null, or rejects.
GetBlockReturns(p) ==
  LET c == cfg[p]
      last == lastProcessedBlock[p]
      cur == currentBlock[p]
      n == blockNum[p]
  IN
  /\ pc[p] = "getBlock"
  /\ \E r \in {"ok", "null", "fail"} :
       LET res == IF r = "ok"
                    THEN Append(results[p], Rec("newBlock", ChainOf(c), n))
                    ELSE results[p]
       IN
       /\ r # "ok" => faults < MaxFaults
       /\ faults' = IF r = "ok" THEN faults ELSE faults + 1
       /\ sawNull' = [sawNull EXCEPT ![p] = @ \/ r = "null"]
       /\ failed' = [failed EXCEPT ![p] = r = "fail"]
       /\ IF r = "fail" THEN
            /\ Complete(p, c, last, cur, res, TRUE)
            /\ UNCHANGED blockNum
          ELSE IF n + 1 <= cur THEN
            /\ blockNum' = [blockNum EXCEPT ![p] = n + 1]
            /\ results' = [results EXCEPT ![p] = res]
            /\ UNCHANGED <<staticData, owner, skipped, currentBlock, caught,
                           outcome, pc>>
          ELSE
            /\ Complete(p, c, last, cur, res, FALSE)
            /\ UNCHANGED blockNum
  /\ UNCHANGED <<nodeCfg, cfg, lastProcessedBlock, overlap, readFrom, polls,
                 observed, prevSeen, lastSeen, queried>>
  /\ UNCHANGED <<xvars, bvars, uvars, cvars, fvars, hvars, svars>>

\* getCurrentEpochInfo / getBalance / getStakingInfo / getStatus returns.
QueryReturns(p) ==
  LET c == cfg[p]
      last == lastProcessedBlock[p]
      cur == currentBlock[p]
  IN
  /\ pc[p] = "query"
  /\ \E ok \in BOOLEAN, v \in Values :
       /\ ~ok => faults < MaxFaults
       /\ faults' = IF ok THEN faults ELSE faults + 1
       /\ failed' = [failed EXCEPT ![p] = ~ok]
       /\ observed' = [observed EXCEPT ![p] = IF ok THEN v ELSE @]
       /\ prevSeen' = [prevSeen EXCEPT ![p] = IF ok THEN lastSeen ELSE @]
       /\ lastSeen' = IF ok THEN v ELSE lastSeen
       /\ Complete(p, c, last, cur,
                   IF ok THEN Append(results[p], QueryRec(c, cur)) ELSE results[p],
                   ~ok)
  /\ UNCHANGED <<nodeCfg, cfg, lastProcessedBlock, blockNum, sawNull, overlap,
                 readFrom, polls, queried>>
  /\ UNCHANGED <<xvars, bvars, uvars, cvars, fvars, hvars, svars>>

RECURSIVE EventRecs(_, _)
EventRecs(c, n) ==
  IF n <= 0 THEN <<>> ELSE Append(EventRecs(c, n - 1), Rec("contractEvent", ChainOf(c), 0))

\* getContractEvents returns n events or rejects (n = -1); the rejection is
\* swallowed by the inner try/catch, so the state update still runs.
EventsReturns(p) ==
  LET c == cfg[p]
      last == lastProcessedBlock[p]
      cur == currentBlock[p]
  IN
  /\ pc[p] = "events"
  /\ \E n \in (-1) .. MaxEvents :
       /\ n = -1 => faults < MaxFaults
       /\ faults' = IF n = -1 THEN faults + 1 ELSE faults
       /\ failed' = [failed EXCEPT ![p] = n = -1]
       /\ Complete(p, c, last, cur, results[p] \o EventRecs(c, n), FALSE)
  /\ UNCHANGED <<nodeCfg, cfg, lastProcessedBlock, blockNum, sawNull, overlap,
                 readFrom, polls, observed, prevSeen, lastSeen, queried>>
  /\ UNCHANGED <<xvars, bvars, uvars, cvars, fvars, hvars, svars>>

\* The user edits the node's parameters between polls; the node's static
\* data is kept by the host.
Reconfigure ==
  /\ \A p \in Procs : ~Active(p)
  /\ nodeCfg' \in NewBlockConfigs \ {nodeCfg}
  /\ UNCHANGED <<staticData, pc, cfg, lastProcessedBlock, currentBlock,
                 blockNum, results, outcome, caught, failed, faults, sawNull, overlap,
                 skipped, owner, readFrom, polls, observed, prevSeen,
                 lastSeen, queried>>
  /\ UNCHANGED <<xvars, bvars, uvars, cvars, fvars, hvars, svars>>

\* The host starts a poll only when the previous one has returned.
SerialStart(p) ==
  /\ \A q \in Procs : ~Active(q)
  /\ PollStart(p)
  /\ UNCHANGED polls
  /\ UNCHANGED hvars

\* Without the host's guarantee a poll may start while another is running.
OverlapStart(p) ==
  /\ polls < MaxPolls
  /\ polls' = polls + 1
  /\ PollStart(p)
  /\ UNCHANGED hvars

\* One node, fixed configuration, non-overlapping polls.
Next ==
  \/ \E p \in SerialProcs : SerialStart(p)
  \/ \E p \in SerialProcs : BlockNumberReturns(p)
  \/ \E p \in SerialProcs : GetBlockReturns(p)
  \/ \E p \in SerialProcs : QueryReturns(p)
  \/ \E p \in SerialProcs : EventsReturns(p)

Spec == Init /\ [][Next]_vars

\* One newBlock node whose parameters are edited between non-overlapping polls.
InitEdit ==
  TriggerInit(NewBlockConfigs) /\ ExecInit({IdleInput})
    /\ BridgeInit({"deposit"}) /\ UtilInit({IdleArgs})
    /\ ClientInit({IdleCall}) /\ FnInit({IdleFn}) /\ HistoryInit
    /\ StakingInit({IdleStaking})

NextEdit ==
  \/ \E p \in SerialProcs : SerialStart(p)
  \/ \E p \in SerialProcs : BlockNumberReturns(p)
  \/ \E p \in SerialProcs : GetBlockReturns(p)
  \/ Reconfigure

SpecEdit == InitEdit /\ [][NextEdit]_vars

\* One Hub newBlock node whose polls the host lets overlap.
InitOverlap ==
  TriggerInit({HubNewBlock}) /\ ExecInit({IdleInput})
    /\ BridgeInit({"deposit"}) /\ UtilInit({IdleArgs})
    /\ ClientInit({IdleCall}) /\ FnInit({IdleFn}) /\ HistoryInit
    /\ StakingInit({IdleStaking})

NextOverlap ==
  \/ \E p \in Procs : OverlapStart(p)
  \/ \E p \in Procs : BlockNumberReturns(p)
  \/ \E p \in Procs : GetBlockReturns(p)

SpecOverlap == InitOverlap /\ [][NextOverlap]_vars

\* ------------------------------------------------------------------------
\* Oasys.execute
\* ------------------------------------------------------------------------
\* const isHub = networkLayer === 'hubMainnet' || networkLayer === 'hubTestnet'
IsHub(in) == in.credLayer \in {"hubMainnet", "hubTestnet"}

\* if (isHub || ['hub', 'staking', 'validator', 'bridge'].includes(resource))
NeedsHubClient(in) ==
  IsHub(in) \/ in.op[1] \in {"hub", "staking", "validator", "bridge"}

\* if (!isHub || ['verse', 'bridge'].includes(resource))
NeedsVerseClient(in) ==
  ~IsHub(in) \/ in.op[1] \in {"verse", "bridge"}

\* const verseKey = credentials.verse as string || 'homeVerse'
CredVerseKey(in) == IF in.credVerse = "" THEN "homeVerse" ELSE in.credVerse

\* Client creation before the item loop: new Wallet() rejects a malformed
\* key, createVerseClient rejects an unknown verse.
SetupThrows(in) ==
  \/ (NeedsHubClient(in) /\ in.privateKey = "bad")
  \/ (NeedsVerseClient(in) /\
        (VerseNotFound(CredVerseKey(in)) \/ in.privateKey = "bad"))

\* The clients' wallet is set only when a private key was given.
HasWallet(in) == in.privateKey = "valid"

\* Amounts are counted in units of 10^14 wei (0.0001 OAS): a wei value is
\* brought to that unit by dropping its last ScaleDigits digits.
ScaleDigits == OasDecimals - 4

RECURSIVE DigitsToNat(_)
DigitsToNat(s) ==
  IF s = <<>> THEN 0
  ELSE 10 * DigitsToNat(SubSeq(s, 1, Len(s) - 1)) + s[Len(s)]

RECURSIVE NatToDigits(_)
NatToDigits(n) ==
  IF n < 10 THEN <<n>> ELSE NatToDigits(n \div 10) \o <<n % 10>>

\* The 'amount' parameter is a decimal string of OAS; the strings tried are
\* the ones on and next to the limits.
AmountText(n) == FormatUnits(NatToDigits(n), 4)

BridgeItemAmounts ==
  { AmountText(n) :
      n \in {0, MinDeposit - 1, MinDeposit, MaxDeposit, MaxDeposit + 1} }

BridgeItemLists ==
  UNION { [1 .. n -> [verse : {"homeVerse", "unknownVerse"},
                      amount : BridgeItemAmounts]] :
            n \in 0 .. MaxBridgeItems }

BridgeExecInputs ==
  [op : {<<"bridge", "deposit">>, <<"bridge", "withdraw">>},
   credLayer : {"hubMainnet"},
   credVerse : {""},
   privateKey : {"none", "valid"},
   continueOnFail : BOOLEAN,
   items : BridgeItemLists]

\* const amountWei = oasToWei(amount)
OasToWei(amount) == ParseUnits(amount, OasDecimals)

WeiUnits(w) ==
  IF Len(w) <= ScaleDigits THEN 0
  ELSE DigitsToNat(SubSeq(w, 1, Len(w) - ScaleDigits))

\* Variant: only deposits are validated by the node.
BridgeAmountCheck_DepositOnly(operation, amountWei) ==
  IF operation = "deposit"
    THEN ValidateBridgeAmount(WeiUnits(amountWei), operation,
                              GetDefaultBridgeLimits)
    ELSE Validation(TRUE, "none")

\* const validation = validateBridgeAmount(amountWei, 'deposit' | 'withdraw')
BridgeAmountCheck(operation, amountWei) ==
  ValidateBridgeAmount(WeiUnits(amountWei), operation, GetDefaultBridgeLimits)

\* The first test of bridgeClient.depositOas / withdrawOas and, for
\* depositOas, its own test of the amount.
BridgeMethodThrows(in, operation, amountWei) ==
  LET call == [method |-> <<"bridge", IF operation = "deposit"
                                         THEN "depositOas" ELSE "withdrawOas">>,
               privateKey |-> in.privateKey,
               amount |-> WeiUnits(amountWei)]
  IN RequireWallet(call) # "none" \/ LocalCheck(call) # "none"

\* The bridge branch for deposit and withdraw: the bridge client is built
\* for the item's verse, the amount is converted and validated, then the
\* client method is called.
BridgeItemBody(in, item) ==
  LET wei == OasToWei(item.amount) IN
  IF VerseNotFound(item.verse) THEN "throw"
  ELSE IF wei.threw THEN "throw"
  ELSE IF ~BridgeAmountCheck(in.op[2], wei.value).isValid THEN "throw"
  ELSE IF BridgeMethodThrows(in, in.op[2], wei.value) THEN "throw"
  ELSE "rpc"

\* The synchronous part of one item's processing, up to its first await:
\*   "rpc"       an RPC call is issued
\*   "throw"     a locally thrown error
\*   "ok"        a result is produced without a call
\*   "undefined" no branch assigns result
ItemBody(in, item, hub, verse) ==
  IF in.op = <<"wallet", "getBalance">> THEN
    (IF hub THEN "rpc" ELSE "undefined")
  ELSE IF in.op = <<"wallet", "transfer">> THEN
    (IF ~(IF IsHub(in) THEN hub ELSE verse) THEN "undefined"
     ELSE IF ~HasWallet(in) THEN "throw" ELSE "rpc")
  ELSE IF in.op = <<"hub", "getBlock">> THEN
    (IF ~hub THEN "throw" ELSE "rpc")
  ELSE IF in.op = <<"verse", "getInfo">> THEN
    (IF VerseNotFound(item.verse) THEN "throw" ELSE "ok")
  ELSE IF in.op = <<"verse", "getStatus">> THEN
    (IF VerseNotFound(item.verse) THEN "throw" ELSE "rpc")
  ELSE IF in.op = <<"utility", "signMessage">> THEN
    (IF ~(hub \/ verse) \/ ~HasWallet(in) THEN "throw" ELSE "ok")
  ELSE IF in.op \in {<<"bridge", "deposit">>, <<"bridge", "withdraw">>} THEN
    BridgeItemBody(in, item)
  ELSE \* no branch of the if/else-if chain matches: result stays unassigned
    "undefined"

\* Operations whose RPC call submits a transaction.
SendsTransaction(in) ==
  in.op \in {<<"wallet", "transfer">>, <<"bridge", "deposit">>,
             <<"bridge", "withdraw">>}

ResultRec(j, kind) == [item |-> j, kind |-> kind]

\* Variant: the catch block pushes nothing.
CatchPush_Drop(rd, j) == rd

\* returnData.push({ json: { error: (error as Error).message } })
CatchPush(rd, j) == Append(rd, ResultRec(j, "error"))

\* Variant: the error is always recorded.
ErrorPolicy_AlwaysRecord(cof) == "record"

\* if (this.continueOnFail()) { push } else { throw error }
ErrorPolicy(cof) == IF cof THEN "record" ELSE "throw"

\* for (let i = 0; i < items.length; i++): after item j, go on or return.
Advance(j, rd) ==
  IF j + 1 <= Len(input.items)
    THEN /\ itemIndex' = j + 1
         /\ xpc' = "item"
         /\ output' = output
    ELSE /\ itemIndex' = j + 1
         /\ xpc' = "returned"
         /\ output' = <<rd>>

\* Item j produced a result (or left it undefined): push and go on.
ItemSucceeds(j, kind) ==
  /\ returnData' = Append(returnData, ResultRec(j, kind))
  /\ Advance(j, Append(returnData, ResultRec(j, kind)))
  /\ UNCHANGED <<itemFailed, threwAt>>

\* Item j raised an error: the catch block of the loop body.
ItemFails(j) ==
  /\ itemFailed' = itemFailed \cup {j}
  /\ IF ErrorPolicy(input.continueOnFail) = "record"
       THEN /\ returnData' = CatchPush(returnData, j)
            /\ Advance(j, CatchPush(returnData, j))
            /\ UNCHANGED threwAt
       ELSE /\ xpc' = "thrown"
            /\ threwAt' = j
            /\ UNCHANGED <<returnData, itemIndex, output>>

\* Credentials are read and the clients are built, before the loop.
ExecStart ==
  /\ xpc = "start"
  /\ IF SetupThrows(input)
       THEN /\ xpc' = "thrown"
            /\ UNCHANGED <<hubClient, verseClient, output, itemIndex>>
       ELSE /\ hubClient' = NeedsHubClient(input)
            /\ verseClient' = NeedsVerseClient(input)
            /\ IF Len(input.items) = 0
                 THEN xpc' = "returned" /\ output' = <<returnData>>
                 ELSE xpc' = "item" /\ output' = output
            /\ UNCHANGED itemIndex
  /\ UNCHANGED <<input, returnData, sent, calls, itemFailed, threwAt>>
  /\ UNCHANGED <<tvars, bvars, uvars, cvars, fvars, hvars, svars>>

\* The loop body for item i up to its first await.
ItemStart ==
  LET j == itemIndex
      body == ItemBody(input, input.items[j], hubClient, verseClient)
  IN
  /\ xpc = "item"
  /\ IF body = "rpc"
       THEN /\ calls' = Append(calls, j)
            /\ xpc' = "await"
            /\ UNCHANGED <<returnData, output, itemIndex, itemFailed, threwAt>>
       ELSE IF body = "throw"
         THEN ItemFails(j) /\ UNCHANGED calls
         ELSE ItemSucceeds(j, IF body = "ok" THEN "result" ELSE "undefined")
              /\ UNCHANGED calls
  /\ UNCHANGED <<input, hubClient, verseClient, sent>>
  /\ UNCHANGED <<tvars, bvars, uvars, cvars, fvars, hvars, svars>>

\* The awaited RPC call of item i resolves or rejects.
ItemReturns ==
  LET j == itemIndex IN
  /\ xpc = "await"
  /\ \E ok \in BOOLEAN :
       IF ok
         THEN /\ sent' = IF SendsTransaction(input) THEN Append(sent, j) ELSE sent
              /\ ItemSucceeds(j, "result")
         ELSE /\ ItemFails(j)
              /\ UNCHANGED sent
  /\ UNCHANGED <<input, hubClient, verseClient, calls>>
  /\ UNCHANGED <<tvars, bvars, uvars, cvars, fvars, hvars, svars>>

InitExec ==
  TriggerInit({BaseCfg}) /\ ExecInit(ExecInputs)
    /\ BridgeInit({"deposit"}) /\ UtilInit({IdleArgs})
    /\ ClientInit({IdleCall}) /\ FnInit({IdleFn}) /\ HistoryInit
    /\ StakingInit({IdleStaking})

NextExec ==
  \/ ExecStart
  \/ ItemStart
  \/ ItemReturns

SpecExec == InitExec /\ [][NextExec]_vars

\* Executions of the bridge deposit and withdraw operations.
InitBridgeExec ==
  TriggerInit({BaseCfg}) /\ ExecInit(BridgeExecInputs)
    /\ BridgeInit({"deposit"}) /\ UtilInit({IdleArgs})
    /\ ClientInit({IdleCall}) /\ FnInit({IdleFn}) /\ HistoryInit
    /\ StakingInit({IdleStaking})

SpecBridgeExec == InitBridgeExec /\ [][NextExec]_vars

\* ------------------------------------------------------------------------
\* Properties of the trigger
\* ------------------------------------------------------------------------
\* Block numbers of the newBlock records in a result list.
BlockNums(res) ==
  { res[i].blockNumber : i \in { j \in 1 .. Len(res) : res[j].event = "newBlock" } }

NewBlockCount(res) ==
  Cardinality({ i \in 1 .. Len(res) : res[i].event = "newBlock" })

\* A poll starts after the previous one has returned; what that one
\* returned joins the record of blocks already delivered.
RecordingStart(p) ==
  /\ \A q \in Procs : ~Active(q)
  /\ PollStart(p)
  /\ emitted' = emitted \cup BlockNums(results[p])
  /\ UNCHANGED polls

\* One Hub newBlock node, non-overlapping polls, with the blocks delivered
\* so far on record.
InitHistory ==
  TriggerInit({HubNewBlock}) /\ ExecInit({IdleInput})
    /\ BridgeInit({"deposit"}) /\ UtilInit({IdleArgs})
    /\ ClientInit({IdleCall}) /\ FnInit({IdleFn}) /\ HistoryInit
    /\ StakingInit({IdleStaking})

NextHistory ==
  \/ \E p \in SerialProcs : RecordingStart(p)
  \/ \E p \in SerialProcs : BlockNumberReturns(p)
  \/ \E p \in SerialProcs : GetBlockReturns(p)

SpecHistory == InitHistory /\ [][NextHistory]_vars

\* C1: with non-overlapping polls the stored cursor of a key never
\* decreases; it changes only in the step that ends a poll of that key, and
\* then to the height that poll observed, which is strictly greater than the
\* value stored before.
CursorNeverDecreases ==
  [][\A k \in Keys :
       /\ staticData'[k] >= staticData[k]
       /\ staticData'[k] # staticData[k] =>
            \E p \in Procs :
              /\ pc[p] # "done" /\ pc'[p] = "done"
              /\ StateKey(cfg'[p]) = k
              /\ staticData'[k] = currentBlock'[p]
              /\ currentBlock'[p] > staticData[k]
              /\ currentBlock'[p] > 0]_vars

\* C1 witness: a poll has returned after observing a height below the
\* stored cursor, and the cursor still holds the higher value.
LowerHeightObserved ==
  \E p \in Procs :
    /\ pc[p] = "done" /\ ~failed[p]
    /\ ChainOf(cfg[p]) # NoChain
    /\ currentBlock[p] < lastProcessedBlock[p]
    /\ staticData[StateKey(cfg[p])] = lastProcessedBlock[p]

\* C2: a newBlock poll emits at most 5 block records.
AtMostFiveBlocks ==
  \A p \in Procs : NewBlockCount(results[p]) <= 5

\* C3: in a newBlock poll whose calls all succeeded and whose blocks all
\* exist, an advance of at most 5 blocks emits every block of
\* (cursor, current]; and a block that a completed poll left outside its
\* window appears in no poll's output.
NewBlockDelivery ==
  \A p \in Procs :
    (pc[p] = "done" /\ EmitsBlocks(cfg[p]) /\ ~failed[p] /\ ~sawNull[p]) =>
      /\ (/\ currentBlock[p] > lastProcessedBlock[p]
          /\ currentBlock[p] - lastProcessedBlock[p] <= 5) =>
            BlockNums(results[p]) =
              (lastProcessedBlock[p] + 1) .. currentBlock[p]
      /\ \A b \in BlockNums(results[p]) : <<ChainOf(cfg[p]), b>> \notin skipped

\* C3 witness: after some block was skipped, a later poll that advanced by
\* at most 5 blocks has emitted its blocks.
EmittedAfterSkip ==
  \E p \in Procs :
    /\ pc[p] = "done" /\ EmitsBlocks(cfg[p]) /\ ~failed[p] /\ ~sawNull[p]
    /\ \E b \in 1 .. MaxHeight : <<ChainOf(cfg[p]), b>> \in skipped
    /\ lastProcessedBlock[p] > 0
    /\ currentBlock[p] > lastProcessedBlock[p]
    /\ results[p] # <<>>

\* C4: a poll in which a call inside the polling body failed completes
\* normally: it returns null or a result list, it does not throw.
FailedPollDoesNotThrow ==
  \A p \in Procs :
    (pc[p] = "done" /\ failed[p]) => outcome[p] \in {"null", "results"}

\* C4 witness: a poll whose call failed went through the catch block and
\* has returned.
FailedPollReturned ==
  \E p \in Procs : pc[p] = "done" /\ failed[p] /\ caught[p]

\* C5: a poll in which a call failed returns null and emits no record.
FailedPollReturnsNull ==
  \A p \in Procs :
    (pc[p] = "done" /\ failed[p]) =>
      (outcome[p] = "null" /\ results[p] = <<>>)

\* C6: the cursor is lowered only by a poll that overlapped another poll.
LostUpdateOnlyWhenOverlapping ==
  [][\A k \in Keys :
       staticData'[k] < staticData[k] =>
         \E p \in Procs :
           /\ pc[p] # "done" /\ pc'[p] = "done"
           /\ StateKey(cfg[p]) = k
           /\ overlap[p]]_vars

\* C6 witness: two overlapping polls, no call failed; the one that observed
\* the lower height wrote last, so the higher cursor is lost, and both
\* emitted the same block.
LostUpdateAndDuplicate ==
  \E p, q \in Procs :
    /\ p # q /\ pc[p] = "done" /\ pc[q] = "done"
    /\ overlap[p] /\ overlap[q] /\ faults = 0
    /\ currentBlock[p] < currentBlock[q]
    /\ currentBlock[p] > lastProcessedBlock[p]
    /\ currentBlock[q] > lastProcessedBlock[q]
    /\ staticData[StateKey(cfg[p])] = currentBlock[p]
    /\ BlockNums(results[p]) \cap BlockNums(results[q]) # {}

\* C7: a poll never reads a cursor value that was stored for another chain
\* than the one it monitors.
CursorPerChain ==
  \A p \in Procs :
    (pc[p] # "idle" /\ readFrom[p] # NoChain) => readFrom[p] = ChainOf(cfg[p])

\* C19: a poll of a change event (wallet balanceChanged, Hub epochChanged,
\* Verse statusChanged) emits a record only if the value it observed differs
\* from the value the previous poll observed.
ChangeEventEmitsOnlyOnChange ==
  \A p \in Procs :
    (/\ pc[p] = "done"
     /\ cfg[p].event \in {"balanceChanged", "epochChanged", "statusChanged"}
     /\ prevSeen[p] # NoValue
     /\ results[p] # <<>>) =>
      observed[p] # prevSeen[p]

\* C20: the block range a Hub contract-event poll passes to the log query
\* spans at most 5 blocks.
ContractQueryWindow ==
  \A p \in Procs :
    queried[p] # NoRange => queried[p][2] - queried[p][1] + 1 <= 5

EachBlockEmittedOnce ==
  \A p \in Procs :
    pc[p] = "done" =>
      /\ BlockNums(results[p]) \cap emitted = {}
      /\ \A i, j \in 1 .. Len(results[p]) :
           i < j => results[p][i].blockNumber < results[p][j].blockNumber

\* C27: the stored cursor changes only in a step that ends a poll none of
\* whose RPC queries failed.
CursorAdvancesOnlyAfterSuccess ==
  [][\A k \in Keys :
       staticData'[k] # staticData[k] =>
         \E p \in Procs :
           /\ pc[p] # "done" /\ pc'[p] = "done"
           /\ StateKey(cfg'[p]) = k
           /\ failed'[p] => ~cfg'[p].abiOk]_vars

\* ------------------------------------------------------------------------
\* Properties of the action node
\* ------------------------------------------------------------------------
\* C8: when execute returns, its single output branch holds exactly one
\* record per input item, in input order, and the record of an item is an
\* error record exactly when that item's processing failed.
OneRecordPerItem ==
  xpc = "returned" =>
    /\ output = <<returnData>>
    /\ Len(returnData) = Len(input.items)
    /\ \A j \in 1 .. Len(returnData) :
         /\ returnData[j].item = j
         /\ (returnData[j].kind = "error" <=> j \in itemFailed)

\* C8 witness: execute returned three records with continue-on-fail enabled;
\* one item failed and another one did not.
ReturnedWithErrorRecord ==
  /\ xpc = "returned" /\ input.continueOnFail
  /\ Len(input.items) = 3
  /\ \E j, k \in 1 .. 3 : j \in itemFailed /\ k \notin itemFailed

\* C9: items are processed one after another in input order, and with
\* continue-on-fail disabled the first failing item makes execute throw: no
\* later item is processed, nothing is returned, and the transactions sent
\* for earlier items remain sent.
SequentialAndAbortOnFirstFailure ==
  /\ \A k \in 1 .. Len(calls) :
       /\ calls[k] <= itemIndex
       /\ calls[k] - 1 <= Len(returnData)
       /\ k > 1 => calls[k - 1] < calls[k]
  /\ xpc \in {"item", "await"} => Len(returnData) = itemIndex - 1
  /\ (~input.continueOnFail /\ itemFailed # {}) =>
       /\ xpc = "thrown"
       /\ itemFailed = {threwAt}
       /\ output = "none"
       /\ Len(returnData) = threwAt - 1
       /\ \A k \in 1 .. Len(calls) : calls[k] <= threwAt
       /\ SendsTransaction(input) =>
            (Len(sent) = threwAt - 1 /\ \A k \in 1 .. Len(sent) : sent[k] = k)

\* C9 witness: the second of three items failed with continue-on-fail
\* disabled, after the first item's transaction had been sent.
AbortedAfterSend ==
  /\ xpc = "thrown" /\ threwAt = 2
  /\ Len(input.items) = 3
  /\ sent = <<1>>

\* C10: with continue-on-fail enabled execute does not throw.
ContinueOnFailNeverThrows ==
  input.continueOnFail => xpc # "thrown"

\* C11: no record pushed for an item of an offered (resource, operation)
\* pair carries an undefined result: each item yields a defined result or an
\* error.
DefinedResultOrError ==
  \A j \in 1 .. Len(returnData) : returnData[j].kind # "undefined"

\* The amount string of item j, read as a number of 0.0001 OAS, is outside
\* 0.001 .. 100,000 OAS.
OutOfRangeAmount(j) ==
  LET a == DigitsToNat(input.items[j].amount.int) * UnitsPerOas
             + DigitsToNat(input.items[j].amount.frac
                             \o Zeros(4 - Len(input.items[j].amount.frac)))
  IN a < UnitsPerOas \div 1000 \/ a > 100000 * UnitsPerOas

\* C28: an item of a bridge deposit or withdraw whose amount converts to
\* less than 0.001 OAS or more than 100,000 OAS never has a client call
\* issued or a transaction sent for it, and once the loop has dealt with it
\* the item has raised an error.
NoOutOfRangeBridgeTransaction ==
  input.op[1] = "bridge" =>
    \A j \in 1 .. Len(input.items) :
      OutOfRangeAmount(j) =>
        /\ \A k \in 1 .. Len(sent) : sent[k] # j
        /\ \A k \in 1 .. Len(calls) : calls[k] # j
        /\ (j < itemIndex \/ threwAt = j) => j \in itemFailed

\* A withdraw of two items has sent the first (in range) and rejected the
\* second, whose amount is one unit above the maximum.
WithdrawAboveMaximumRejected ==
  /\ input.op = <<"bridge", "withdraw">>
  /\ Len(input.items) = 2
  /\ OutOfRangeAmount(2) /\ ~OutOfRangeAmount(1)
  /\ sent = <<1>>
  /\ 2 \in itemFailed
  /\ xpc = "returned"

\* ------------------------------------------------------------------------
\* Properties of the bridge
\* ------------------------------------------------------------------------
\* C13: the result of getBridgeStatus is determined by the receipt it
\* fetched, the direction and the confirmations (height minus receipt
\* block): no receipt gives 'pending' with 0 confirmations; a reverted
\* receipt gives 'failed' in either direction; a successful deposit is
\* 'completed' exactly from 64 confirmations on and 'pending' below; a
\* successful withdrawal gives 'challenge'.
BridgeStatusTable ==
  bStatus.result.status # "none" =>
    LET r == bStatus.result
        s == bStatus.seen
        c == bStatus.height - s.blockNumber
    IN IF ~s.present
         THEN r.status = "pending" /\ r.confirmations = 0
         ELSE /\ r.confirmations = c
              /\ s.status = 0 => r.status = "failed"
              /\ (s.status = 1 /\ bDirection = "deposit") =>
                   /\ (r.status = "completed" <=> c >= 64)
                   /\ (r.status = "pending" <=> c < 64)
              /\ (s.status = 1 /\ bDirection = "withdraw") =>
                   r.status = "challenge"

\* C13 witness: a successful deposit queried at exactly 64 confirmations
\* was reported completed.
DepositCompletedAtThreshold ==
  /\ bDirection = "deposit"
  /\ bStatus.seen.present /\ bStatus.seen.status = 1
  /\ bStatus.height - bStatus.seen.blockNumber = 64
  /\ bStatus.result.status = "completed"

\* C14: a withdrawal is never reported completed, whatever the height; once
\* mined successfully it is reported as 'challenge' by every query, so a
\* withdrawal's status is final only if the transaction reverted.
WithdrawalNeverCompleted ==
  (bDirection = "withdraw" /\ bStatus.result.status # "none") =>
    /\ bStatus.result.status # "completed"
    /\ (bStatus.seen.present /\ bStatus.seen.status = 1) =>
         bStatus.result.status = "challenge"
    /\ IsBridgeFinalized(bStatus.result) =>
         (bStatus.seen.present /\ bStatus.seen.status = 0)

\* C14 witness: a successful withdrawal queried more than 64 blocks after
\* its receipt was still reported as in its challenge period.
WithdrawalStillInChallenge ==
  /\ bDirection = "withdraw"
  /\ bStatus.seen.present /\ bStatus.seen.status = 1
  /\ bStatus.height - bStatus.seen.blockNumber > 64
  /\ bStatus.result.status = "challenge"

\* C25: for a deposit whose receipt is present and successful, a query
\* after one that reported 'completed' reports 'completed' again, and if
\* blocks keep being produced and the status keeps being queried, the
\* status eventually is 'completed'.
DepositCompletesAndStaysCompleted ==
  /\ [][(/\ bDirection = "deposit"
          /\ bStatus.seen.present /\ bStatus.seen.status = 1
          /\ bStatus.result.status = "completed") =>
           bStatus'.result.status = "completed"]_vars
  /\ (bDirection = "deposit" /\ bReceipt.present /\ bReceipt.status = 1)
       ~> (bStatus.result.status = "completed")

\* C25 witness: a deposit was reported completed again by a query made
\* after further blocks.
DepositStillCompleted ==
  /\ bDirection = "deposit"
  /\ bStatus.seen.present /\ bStatus.seen.status = 1
  /\ bStatus.height - bStatus.seen.blockNumber > 64
  /\ bStatus.result.status = "completed"

DirectionInference ==
  uDirection # "unset" =>
    LET hubSrc == uArgs.src \in {248, 9372}
        hubDst == uArgs.dst \in {248, 9372}
        verseSrc == uArgs.src \in VerseChainIds
        verseDst == uArgs.dst \in VerseChainIds
    IN /\ (hubSrc /\ verseDst) => uDirection = "deposit"
       /\ (verseSrc /\ hubDst) => uDirection = "withdraw"
       /\ ~((hubSrc /\ verseDst) \/ (verseSrc /\ hubDst)) =>
            uDirection = "null"

\* C15 witness: Hub to an unknown chain id was given no direction.
NoDirectionForUnknownChain ==
  /\ uArgs.src \in HubChainIds /\ uArgs.dst \in OtherChainIds
  /\ uDirection = "null"

\* C16: 248 and 9372 classify as hub, the chain ids of the configured
\* Verses as verse, and every other chain id as unknown.
LayerClassification ==
  uLayer # "unset" =>
    /\ uArgs.src \in {248, 9372} => uLayer = "hub"
    /\ uArgs.src \in VerseChainIds => uLayer = "verse"
    /\ uArgs.src \notin ({248, 9372} \cup VerseChainIds) => uLayer = "unknown"

\* C17: the limits getLimits reports are the limits validation enforces and
\* the documentation states, 0.001 OAS and 100,000 OAS, so an amount is
\* accepted exactly when it lies within the reported limits.
ReportedLimitsAreEnforced ==
  uLimits.set =>
    /\ \A d \in {uLimits.deposit, uLimits.withdrawal} :
         /\ d.minAmount = UnitsPerOas \div 1000
         /\ d.maxAmount = 100000 * UnitsPerOas
    /\ uValidation.set =>
         LET d == IF uArgs.direction = "deposit" THEN uLimits.deposit
                  ELSE uLimits.withdrawal
         IN uValidation.isValid <=>
              (d.minAmount <= uArgs.amount /\ uArgs.amount <= d.maxAmount)

\* ------------------------------------------------------------------------
\* Properties of getStakingInfo
\* ------------------------------------------------------------------------
RECURSIVE SumOver(_, _)
SumOver(ds, field) ==
  IF ds = <<>> THEN 0
  ELSE SumOver(SubSeq(ds, 1, Len(ds) - 1), field) + ds[Len(ds)][field]

\* The delegations of the first n validators whose queries were answered
\* and whose delegation is positive, in list order.
RECURSIVE AnsweredDelegations(_)
AnsweredDelegations(n) ==
  IF n = 0 THEN <<>>
  ELSE LET v == sQuery.validators[n]
           before == AnsweredDelegations(n - 1)
       IN IF n \notin sFailed /\ sQuery.delegation[v] > 0
            THEN Append(before, [validator |-> v,
                                 amount |-> sQuery.delegation[v],
                                 rewards |-> sQuery.rewards[v]])
            ELSE before

\* C29: the object getStakingInfo returns has totalStaked equal to the sum
\* of the listed amounts and totalRewards equal to the sum of the listed
\* rewards; every listed amount is positive; validators is the list of the
\* listed delegations' validators; and the delegations listed are those of
\* the validators whose queries were answered, so a validator with a failed
\* query adds to neither the lists nor the totals.
StakingInfoConsistent ==
  spc = "returned" =>
    /\ sResult.totalStaked = SumOver(sResult.delegations, "amount")
    /\ sResult.totalRewards = SumOver(sResult.delegations, "rewards")
    /\ \A k \in 1 .. Len(sResult.delegations) :
         sResult.delegations[k].amount > 0
    /\ Len(sResult.validators) = Len(sResult.delegations)
    /\ \A k \in 1 .. Len(sResult.delegations) :
         sResult.validators[k] = sResult.delegations[k].validator
    /\ sResult.delegations = AnsweredDelegations(Len(sQuery.validators))

\* The method returned after one validator's query was rejected although
\* its delegation is positive, and another delegation is listed.
ReturnedWithSkippedValidator ==
  /\ spc = "returned"
  /\ \E i \in sFailed : sQuery.delegation[sQuery.validators[i]] > 0
  /\ Len(sResult.delegations) >= 1
  /\ sResult.totalRewards > 0

\* ------------------------------------------------------------------------
\* Properties of the clients
\* ------------------------------------------------------------------------
\* C18: a state-changing method called on a client built without a private
\* key fails with the "Wallet not configured" error, whatever its other
\* arguments, and no transaction is submitted.
NoWalletNoTransaction ==
  cCall.privateKey = "none" =>
    /\ cSubmitted = 0
    /\ cpc \in {"start", "thrown"}
    /\ cpc = "thrown" => cError = "Wallet not configured - private key required"

\* C18 witness: a deposit of an amount below the minimum on a bridge client
\* without a key failed with the wallet error, not the amount error.
WalletErrorBeforeAmountError ==
  /\ cCall.privateKey = "none"
  /\ cCall.method = <<"bridge", "depositOas">>
  /\ cCall.amount < MinDeposit
  /\ cpc = "thrown"
  /\ cError = "Wallet not configured - private key required"

\* ------------------------------------------------------------------------
\* Properties of the unit conversions
\* ------------------------------------------------------------------------
\* C22: converting a non-negative wei amount to OAS (or Gwei) and back gives
\* the amount itself; 10^18 wei read as 1 OAS and 5 * 10^17 wei as 0.5 OAS.
UnitRoundTrip ==
  (fCall.fn = "roundTrip" /\ fResult.set) =>
    /\ fResult.parsed =>
         (~fResult.back.threw /\ fResult.back.value = fCall.wei)
    /\ (fCall.unit = "oas" /\ fCall.wei = <<1>> \o Zeros(18)) =>
         (fResult.text.int = <<1>> /\ fResult.text.frac = <<0>>)
    /\ (fCall.unit = "oas" /\ fCall.wei = <<5>> \o Zeros(17)) =>
         (fResult.text.int = <<0>> /\ fResult.text.frac = <<5>>)

\* C22 witness: 0.5 OAS written as "0.5" was parsed back to 5 * 10^17 wei.
HalfOasRoundTrip ==
  /\ fCall.fn = "roundTrip" /\ fCall.unit = "oas"
  /\ fCall.wei = <<5>> \o Zeros(17)
  /\ fResult.set /\ fResult.parsed
  /\ fResult.text.frac = <<5>>
  /\ fResult.back.value = fCall.wei

\* C23: formatOas with its default decimals shows the exact OAS value of the
\* wei amount: the exact decimal string is contained in the output.
FormatOasKeepsDigits ==
  (fCall.fn = "formatOas" /\ fResult.set) =>
    LET exact == FormatUnits(fCall.wei, OasDecimals)
        shown == fResult.shown
    IN /\ shown.int = exact.int
       /\ Len(exact.frac) <= Len(shown.frac)
       /\ SubSeq(shown.frac, 1, Len(exact.frac)) = exact.frac

\* C24: the bridge client's Hub endpoint is the one the credentials select:
\* the testnet endpoint for Hub Testnet, the mainnet endpoint for Hub
\* Mainnet, the custom RPC URL for a custom endpoint.
BridgeUsesSelectedHub ==
  (fCall.fn = "createBridgeClient" /\ fResult.set /\ ~fResult.threw) =>
    /\ fCall.layer = "hubTestnet" =>
         fResult.hubRpcUrl = "https://rpc.testnet.oasys.games"
    /\ fCall.layer = "hubMainnet" =>
         fResult.hubRpcUrl = "https://rpc.mainnet.oasys.games"
    /\ (fCall.layer = "custom" /\ fCall.customRpcUrl # "") =>
         fResult.hubRpcUrl = fCall.customRpcUrl

\* ------------------------------------------------------------------------
\* Properties of the staking rewards
\* ------------------------------------------------------------------------
\* C30: for delegations of at most the validator's total stake, rewards of
\* at least 0 and an integer commission rate in 0..100,
\* calculateDelegatorRewards returns a value between 0 and validatorRewards;
\* it returns 0 when the total stake is 0 or the commission rate is 100; and
\* the rewards of delegators whose delegations sum to at most the total
\* stake sum to at most validatorRewards.
DelegatorRewardsBounded ==
  (fCall.fn = "calculateDelegatorRewards" /\ fResult.set) =>
    /\ \A k \in 1 .. Len(fResult.rewards) :
         /\ 0 <= fResult.rewards[k]
         /\ fResult.rewards[k] <= fCall.validatorRewards
         /\ fCall.totalValidatorStake = 0 => fResult.rewards[k] = 0
         /\ fCall.commissionRate = 100 => fResult.rewards[k] = 0
    /\ (IF Len(fResult.rewards) = 2
          THEN fResult.rewards[1] + fResult.rewards[2]
          ELSE fResult.rewards[1]) <= fCall.validatorRewards

\* Two delegators holding the whole stake between them at a 10 % commission
\* both receive something.
TwoDelegatorsRewarded ==
  /\ fCall.fn = "calculateDelegatorRewards" /\ fResult.set
  /\ Len(fCall.delegated) = 2
  /\ fCall.delegated[1] + fCall.delegated[2] = fCall.totalValidatorStake
  /\ fCall.commissionRate = 10
  /\ fResult.rewards[1] > 0 /\ fResult.rewards[2] > 0

====
